---- MODULE Spec2Model ----
(***************************************************************************)
(* Model of src-tauri/src/core/setup.rs: the asynchronous setup task that  *)
(* builds the "core" window and attaches the titlebar, main and ask        *)
(* webviews, the Resized handler that re-applies their geometry, and the   *)
(* download handler of the main webview.                                   *)
(*                                                                         *)
(* Numbers.  The scale factor is a rational <<n, d>> (1.25 is <<5, 4>>).   *)
(* A logical coordinate is held as its numerator over the denominator n of *)
(* the window's scale factor: the constant c is c * n, and                 *)
(* (height as f64 / scale_factor) is height * d.  Multiplying by the scale *)
(* factor gives the physical coordinate as the same numerator over d.      *)
(* A u32 is held as two 16-bit limbs <<hi, lo>>, so that a wrapped         *)
(* subtraction keeps its 32-bit value.                                     *)
(***************************************************************************)
EXTENDS Integers, Sequences, FiniteSets, TLC

\* ---------------------------------------------------------------- bounds
MaxResizes == 2      \* resizes of the window by the user in one run
MaxPending == 1      \* Resized events waiting for delivery
MaxFailed == 1       \* set_position and set_size calls that fail in one event
MaxDownloadEvents == 3   \* download events of the main webview in one run

\* -------------------------------------------------------------- constants
\* core::constant (imported at setup.rs:16), logical units; the properties
\* below use only that both are positive
TITLEBAR_HEIGHT == 28
ASK_HEIGHT == 120

Limb == 2^16

Surfaces == {"titlebar", "main", "ask"}

\* the set_position and set_size calls of one Resized event
Calls == Surfaces \X {"position", "size"}

\* scale factors a display reports: 1.0 and 1.25
ScaleFactors == {<<1, 1>>, <<5, 4>>}

\* inner sizes in logical units: the builder's inner_size, and a larger one the
\* user drags the window to
LogicalSizes == {<<800, 600>>, <<1000, 700>>}

\* a minimised window reports a Resized event of size 0 x 0
Minimized == <<0, 0>>

\* ------------------------------------------------------------- arithmetic
\* f64::round of the non-negative rational num/den (half away from zero)
Round(num, den) == (2 * num + den) \div (2 * den)

\* u32 from a natural below 2^31
U32(v) == <<v \div Limb, v % Limb>>

\* the u32 congruent to z mod 2^32, for -2^31 < z < 2^31
WrapU32(z) ==
    IF z >= 0 THEN U32(z)
    ELSE <<(Limb - 1) - ((-z - 1) \div Limb), (Limb - 1) - ((-z - 1) % Limb)>>

\* wrapping addition of two u32
AddU32(a, b) ==
    LET lo == a[2] + b[2]
        hi == a[1] + b[1] + (lo \div Limb)
    IN  <<hi % Limb, lo % Limb>>

\* the value of a u32 below 2^31
IsSmall(a) == a[1] < Limb \div 2
Value(a) == a[1] * Limb + a[2]

\* physical size of a logical size under a scale factor
ToPhysical(ls, sf) == <<(ls[1] * sf[1]) \div sf[2], (ls[2] * sf[1]) \div sf[2]>>

PhysicalSizes(sf) == {ToPhysical(ls, sf) : ls \in LogicalSizes}

VARIABLES
    target_os,        \* "macos" or "other": the cfg(target_os) branch compiled
    conf_ask_mode,    \* conf.ask_mode
    overflow_checks,  \* the build panics on integer overflow (dev profile) or wraps
    display_scale,    \* the scale factor the window reports
    pc,               \* position of the setup task
    inner_size,       \* the window's current physical inner size
    win_size,         \* the size read once by the setup task
    scale_factor,     \* the scale factor read once by the setup task
    window,           \* the mutex around the window: [owner, poisoned]
    webviews,         \* surface name -> attached geometry, or NoView
    subscribed,       \* the on_window_event closure is registered
    events,           \* Resized events waiting for delivery
    event_pc,         \* position of the event thread inside the handler
    event_size,       \* the size of the event being handled
    layout,           \* the last layout computed: size, requested geometry, calls
    failed_events,    \* number of Resized events in which a set call failed
    resizes,          \* number of resizes so far
    download_path,    \* the path behind the download mutex
    destination,      \* the destination last handed back to the toolkit
    opened,           \* the shell.open calls made so far
    trace,            \* the download events handled so far
    download_pc       \* "ready", or how the download handler panicked

layoutVars == <<pc, inner_size, win_size, scale_factor, window, webviews,
                subscribed, events, event_pc, event_size, layout,
                failed_events, resizes>>
downloadVars == <<download_path, destination, opened, trace, download_pc>>
confVars == <<target_os, conf_ask_mode, overflow_checks, display_scale>>
vars == <<confVars, layoutVars, downloadVars>>

NoView == [attached |-> FALSE]
NoSize == <<0, 0>>
NoScale == <<0, 1>>
NoLayout == [by |-> "none", size |-> NoSize, requested |-> [s \in Surfaces |-> NoView],
             called |-> {}, failed |-> {}]

\* PathBuf: absolute flag and components; PathBuf::new() is the empty path
EmptyPath == [abs |-> FALSE, comps |-> <<>>]

\* app_handle.path().download_dir()
DownloadDir == [abs |-> TRUE, comps |-> <<"home", "Downloads">>]

\* destinations the toolkit proposes: a bare file name, a relative path with a
\* directory component, an absolute path
Destinations ==
    {[abs |-> FALSE, comps |-> <<"report.pdf">>],
     [abs |-> FALSE, comps |-> <<"sub", "notes.txt">>],
     [abs |-> TRUE, comps |-> <<"tmp", "report.pdf">>]}

\* Path::join: an absolute argument replaces the base
Join(base, path) ==
    IF path.abs THEN path
    ELSE [abs |-> base.abs, comps |-> base.comps \o path.comps]

\* Path::file_name as a path of one component
FileName(path) ==
    IF path.comps = <<>> THEN EmptyPath
    ELSE [abs |-> FALSE, comps |-> <<path.comps[Len(path.comps)]>>]

\* ------------------------------------------------------- layout (pure part)
\* variant: the ask strip is reserved whatever the configuration says
ask_mode_height_always == ASK_HEIGHT

\* setup.rs:23
ask_mode_height == IF conf_ask_mode THEN ASK_HEIGHT ELSE 0

\* setup.rs:69
titlebar_height == Round(scale_factor[1] * TITLEBAR_HEIGHT, scale_factor[2])

\* setup.rs:70
ask_height == Round(scale_factor[1] * ask_mode_height, scale_factor[2])

\* LogicalPosition::new(0.0, c) for a constant c
Const(c, sf) == c * sf[1]

\* (height as f64 / scale_factor)
LogicalHeight(h, sf) == h * sf[2]

View(y, w, h) ==
    [attached |-> TRUE,
     position |-> [x |-> 0, y |-> y],
     size |-> [width |-> U32(w), height |-> h]]

\* the u32 subtraction of the main height overflows
Underflows(size) == size[2] < titlebar_height + ask_height

\* variant: the ask strip is not subtracted from the main height
MainHeight_without_ask(size) == WrapU32(size[2] - titlebar_height)

\* win_size.height - titlebar_height - ask_height, wrapping
MainHeight(size) == WrapU32(size[2] - (titlebar_height + ask_height))

\* setup_macos_views
MacosInitial(s, size) ==
    CASE s = "titlebar" -> View(0, size[1], U32(titlebar_height))
      [] s = "ask" -> View(LogicalHeight(size[2], display_scale) - Const(ASK_HEIGHT, display_scale),
                           size[1], U32(ask_height))
      [] s = "main" -> View(Const(TITLEBAR_HEIGHT, display_scale), size[1], MainHeight(size))

\* setup_non_macos_views
NonMacosInitial(s, size) ==
    CASE s = "ask" -> View(LogicalHeight(size[2], display_scale) - Const(ASK_HEIGHT, display_scale),
                           size[1], U32(ask_height))
      [] s = "titlebar" -> View(LogicalHeight(size[2], display_scale)
                                  - Const(ASK_HEIGHT, display_scale)
                                  - Const(TITLEBAR_HEIGHT, display_scale),
                                size[1], U32(titlebar_height))
      [] s = "main" -> View(0, size[1], MainHeight(size))

\* update_view_positions, macOS block
MacosResized(s, size) ==
    CASE s = "main" -> View(Const(TITLEBAR_HEIGHT, scale_factor), size[1], MainHeight(size))
      [] s = "titlebar" -> View(0, size[1], U32(titlebar_height))
      [] s = "ask" -> View(LogicalHeight(size[2], scale_factor) - Const(ASK_HEIGHT, scale_factor),
                           size[1], U32(ask_height))

\* update_view_positions, non-macOS block
NonMacosResized(s, size) ==
    CASE s = "main" -> View(0, size[1], MainHeight(size))
      [] s = "titlebar" -> View(LogicalHeight(size[2], scale_factor)
                                  - Const(TITLEBAR_HEIGHT, scale_factor),
                                size[1], U32(titlebar_height))
      [] s = "ask" -> View(LogicalHeight(size[2], scale_factor)
                             - Const(ASK_HEIGHT, scale_factor)
                             - Const(TITLEBAR_HEIGHT, scale_factor),
                           size[1], U32(ask_height))

InitialGeometry(s, size) ==
    IF target_os = "macos" THEN MacosInitial(s, size) ELSE NonMacosInitial(s, size)

ResizedGeometry(s, size) ==
    IF target_os = "macos" THEN MacosResized(s, size) ELSE NonMacosResized(s, size)

\* the order in which the setup task attaches the surfaces
AttachOrder ==
    IF target_os = "macos" THEN <<"titlebar", "ask", "main">>
    ELSE <<"ask", "titlebar", "main">>

\* variant: only the position is applied
set_view_properties_position_only(old, new, s, failed) ==
    [old EXCEPT !.position = IF <<s, "position">> \in failed THEN @ ELSE new.position]

\* variant: a failed set_position returns before set_size
set_view_properties_returns_early(old, new, s, failed) ==
    IF <<s, "position">> \in failed THEN old
    ELSE [old EXCEPT !.position = new.position,
                     !.size = IF <<s, "size">> \in failed THEN @ ELSE new.size]

\* variant: any failed call leaves the whole geometry of the surface
set_view_properties_all_or_nothing(old, new, s, failed) ==
    IF <<s, "position">> \in failed \/ <<s, "size">> \in failed THEN old
    ELSE [old EXCEPT !.position = new.position, !.size = new.size]

\* set_view_properties: a failed call is reported and leaves that component
set_view_properties(old, new, s, failed) ==
    [old EXCEPT !.position = IF <<s, "position">> \in failed THEN @ ELSE new.position,
                !.size = IF <<s, "size">> \in failed THEN @ ELSE new.size]

\* ------------------------------------------------------------------- Init
Init ==
    /\ target_os \in {"macos", "other"}
    /\ conf_ask_mode \in BOOLEAN
    /\ overflow_checks \in BOOLEAN
    /\ display_scale \in ScaleFactors
    /\ pc = "spawn"
    /\ inner_size = NoSize
    /\ win_size = NoSize
    /\ scale_factor = NoScale
    /\ window = [owner |-> "none", poisoned |-> FALSE]
    /\ webviews = [s \in Surfaces |-> NoView]
    /\ subscribed = FALSE
    /\ events = <<>>
    /\ event_pc = "idle"
    /\ event_size = NoSize
    /\ layout = NoLayout
    /\ failed_events = 0
    /\ resizes = 0
    /\ download_path = EmptyPath
    /\ destination = EmptyPath
    /\ opened = <<>>
    /\ trace = <<>>
    /\ download_pc = "ready"

\* ------------------------------------------------------------ setup task
\* init: the configuration is loaded and the setup task is spawned
Spawn ==
    /\ pc = "spawn"
    /\ pc' = "build"
    /\ UNCHANGED <<confVars, inner_size, win_size, scale_factor, window, webviews,
                   subscribed, events, event_pc, event_size, layout, failed_events,
                   resizes, downloadVars>>

\* core_window.build().expect(..): the window manager grants an inner size
BuildWindow ==
    /\ pc = "build"
    /\ \E ok \in BOOLEAN :
         IF ok
         THEN /\ \E sz \in PhysicalSizes(display_scale) : inner_size' = sz
              /\ pc' = "inner_size"
         ELSE /\ pc' = "panicked"
              /\ UNCHANGED inner_size
    /\ UNCHANGED <<confVars, win_size, scale_factor, window, webviews,
                   subscribed, events, event_pc, event_size, layout, failed_events,
                   resizes, downloadVars>>

\* core_window.inner_size().expect(..)
ReadInnerSize ==
    /\ pc = "inner_size"
    /\ \E ok \in BOOLEAN :
         IF ok
         THEN /\ win_size' = inner_size
              /\ pc' = "scale_factor"
         ELSE /\ pc' = "panicked"
              /\ UNCHANGED win_size
    /\ UNCHANGED <<confVars, inner_size, scale_factor, window, webviews,
                   subscribed, events, event_pc, event_size, layout, failed_events,
                   resizes, downloadVars>>

\* window.lock().unwrap().scale_factor().unwrap(): the guard is a temporary
ReadScaleFactor ==
    /\ pc = "scale_factor"
    /\ window.owner = "none"
    /\ \E ok \in BOOLEAN :
         IF ok
         THEN /\ scale_factor' = display_scale
              /\ pc' = "lock"
              /\ UNCHANGED window
         ELSE /\ pc' = "panicked"
              /\ window' = [window EXCEPT !.poisoned = TRUE]
              /\ UNCHANGED scale_factor
    /\ UNCHANGED <<confVars, inner_size, win_size, webviews,
                   subscribed, events, event_pc, event_size, layout, failed_events,
                   resizes, downloadVars>>

\* let win = window.lock().unwrap()
LockWindow ==
    /\ pc = "lock"
    /\ window.owner = "none"
    /\ window' = [window EXCEPT !.owner = "setup"]
    /\ pc' = "attach1"
    /\ UNCHANGED <<confVars, inner_size, win_size, scale_factor, webviews,
                   subscribed, events, event_pc, event_size, layout, failed_events,
                   resizes, downloadVars>>

AttachIndex == CASE pc = "attach1" -> 1 [] pc = "attach2" -> 2 [] pc = "attach3" -> 3

AfterAttach == CASE pc = "attach1" -> "attach2" [] pc = "attach2" -> "attach3"
                 [] pc = "attach3" -> "subscribe"

\* the setup task panics while it holds the window guard
SetupPanics ==
    /\ pc' = "panicked"
    /\ window' = [owner |-> "none", poisoned |-> TRUE]

\* variant: the result of add_child is dropped and the task goes on
AddChild_ignores_error ==
    /\ pc \in {"attach1", "attach2", "attach3"}
    /\ LET s == AttachOrder[AttachIndex]
       IN  IF s = "main" /\ Underflows(win_size) /\ overflow_checks
           THEN SetupPanics /\ UNCHANGED <<webviews, layout>>
           ELSE \E ok \in BOOLEAN :
                  /\ pc' = AfterAttach
                  /\ UNCHANGED window
                  /\ IF ok
                     THEN /\ webviews' = [webviews EXCEPT ![s] = InitialGeometry(s, win_size)]
                          /\ layout' = [by |-> "initial", size |-> win_size,
                                        requested |-> [layout.requested EXCEPT
                                                         ![s] = InitialGeometry(s, win_size)],
                                        called |-> {}, failed |-> {}]
                     ELSE UNCHANGED <<webviews, layout>>
    /\ UNCHANGED <<confVars, inner_size, win_size, scale_factor,
                   subscribed, events, event_pc, event_size, failed_events,
                   resizes, downloadVars>>

\* win.add_child(view, position, size).unwrap(), in the order of the platform
AddChild ==
    /\ pc \in {"attach1", "attach2", "attach3"}
    /\ LET s == AttachOrder[AttachIndex]
       IN  IF s = "main" /\ Underflows(win_size) /\ overflow_checks
           THEN SetupPanics /\ UNCHANGED <<webviews, layout>>
           ELSE \E ok \in BOOLEAN :
                  IF ok
                  THEN /\ webviews' = [webviews EXCEPT ![s] = InitialGeometry(s, win_size)]
                       /\ layout' = [by |-> "initial", size |-> win_size,
                                     requested |-> [layout.requested EXCEPT
                                                      ![s] = InitialGeometry(s, win_size)],
                                     called |-> {}, failed |-> {}]
                       /\ pc' = AfterAttach
                       /\ UNCHANGED window
                  ELSE SetupPanics /\ UNCHANGED <<webviews, layout>>
    /\ UNCHANGED <<confVars, inner_size, win_size, scale_factor,
                   subscribed, events, event_pc, event_size, failed_events,
                   resizes, downloadVars>>

\* variant: the closure is registered before the surfaces are attached
Subscribe_before_attach ==
    /\ pc = "attach1"
    /\ ~subscribed
    /\ subscribed' = TRUE
    /\ UNCHANGED <<confVars, pc, inner_size, win_size, scale_factor, window, webviews,
                   events, event_pc, event_size, layout, failed_events,
                   resizes, downloadVars>>

\* win.on_window_event(..)
Subscribe ==
    /\ pc = "subscribe"
    /\ subscribed' = TRUE
    /\ pc' = "unlock"
    /\ UNCHANGED <<confVars, inner_size, win_size, scale_factor, window, webviews,
                   events, event_pc, event_size, layout, failed_events,
                   resizes, downloadVars>>

\* the end of the async block drops the guard
Unlock ==
    /\ pc = "unlock"
    /\ window' = [window EXCEPT !.owner = "none"]
    /\ pc' = "done"
    /\ UNCHANGED <<confVars, inner_size, win_size, scale_factor, webviews,
                   subscribed, events, event_pc, event_size, layout, failed_events,
                   resizes, downloadVars>>

\* ----------------------------------------------------------- event thread
\* the user resizes (or minimises) the window; the toolkit queues a Resized
\* event for the registered closure
UserResize ==
    /\ pc \notin {"spawn", "build", "panicked"}
    /\ resizes < MaxResizes
    /\ subscribed => Len(events) < MaxPending
    /\ \E sz \in (PhysicalSizes(display_scale) \cup {Minimized}) \ {inner_size} :
         /\ inner_size' = sz
         /\ events' = IF subscribed THEN Append(events, sz) ELSE events
    /\ resizes' = resizes + 1
    /\ UNCHANGED <<confVars, pc, win_size, scale_factor, window, webviews,
                   subscribed, event_pc, event_size, layout, failed_events,
                   downloadVars>>

\* the event loop calls the closure with the next Resized event
Deliver ==
    /\ event_pc = "idle"
    /\ events # <<>>
    /\ event_size' = Head(events)
    /\ events' = Tail(events)
    /\ event_pc' = "lock"
    /\ UNCHANGED <<confVars, pc, inner_size, win_size, scale_factor, window, webviews,
                   subscribed, layout, failed_events, resizes, downloadVars>>

\* variant: the handler takes the window without waiting for the guard
HandlerLock_without_wait ==
    /\ event_pc = "lock"
    /\ IF window.poisoned
       THEN event_pc' = "panicked" /\ UNCHANGED window
       ELSE event_pc' = "update" /\ window' = [window EXCEPT !.owner = "event"]
    /\ UNCHANGED <<confVars, pc, inner_size, win_size, scale_factor, webviews,
                   subscribed, events, event_size, layout, failed_events,
                   resizes, downloadVars>>

\* update_view_positions: window_clone.lock().unwrap()
HandlerLock ==
    /\ event_pc = "lock"
    /\ window.owner = "none"
    /\ IF window.poisoned
       THEN event_pc' = "panicked" /\ UNCHANGED window
       ELSE event_pc' = "update" /\ window' = [window EXCEPT !.owner = "event"]
    /\ UNCHANGED <<confVars, pc, inner_size, win_size, scale_factor, webviews,
                   subscribed, events, event_size, layout, failed_events,
                   resizes, downloadVars>>

\* the handler panics while it holds the window guard
HandlerPanics ==
    /\ event_pc' = "panicked"
    /\ window' = [owner |-> "none", poisoned |-> TRUE]
    /\ UNCHANGED <<webviews, layout, failed_events>>

\* update_view_positions after the lock: the three get_webview lookups, then
\* set_view_properties for main, titlebar and ask; the guard drops on return
update_view_positions ==
    /\ event_pc = "update"
    /\ IF \E s \in Surfaces : ~webviews[s].attached
       THEN HandlerPanics
       ELSE IF Underflows(event_size) /\ overflow_checks
       THEN HandlerPanics
       ELSE \E failed \in SUBSET Calls :
              /\ Cardinality(failed) <= MaxFailed
              /\ webviews' = [s \in Surfaces |->
                               set_view_properties(webviews[s],
                                   ResizedGeometry(s, event_size), s, failed)]
              /\ layout' = [by |-> "resized", size |-> event_size,
                            requested |-> [s \in Surfaces |-> ResizedGeometry(s, event_size)],
                            called |-> Calls, failed |-> failed]
              /\ failed_events' = failed_events + (IF failed # {} THEN 1 ELSE 0)
              /\ window' = [window EXCEPT !.owner = "none"]
              /\ event_pc' = "idle"
    /\ UNCHANGED <<confVars, pc, inner_size, win_size, scale_factor,
                   subscribed, events, event_size, resizes, downloadVars>>

\* ------------------------------------------------------- download handler
\* the main webview exists and its download hook can still run
DownloadReady ==
    /\ webviews["main"].attached
    /\ download_pc = "ready"
    /\ Len(trace) < MaxDownloadEvents

\* variant: a request does not replace the path of a download in flight
Requested_keeps_inflight ==
    /\ DownloadReady
    /\ \E dest \in Destinations, dir_ok \in BOOLEAN :
         /\ trace' = Append(trace, [kind |-> "Requested", destination |-> dest,
                                    success |-> FALSE])
         /\ IF dir_ok
            THEN /\ download_path' = IF download_path = EmptyPath
                                     THEN Join(DownloadDir, dest) ELSE download_path
                 /\ destination' = download_path'
                 /\ UNCHANGED download_pc
            ELSE /\ download_pc' = "no download directory"
                 /\ UNCHANGED <<download_path, destination>>
    /\ UNCHANGED <<confVars, layoutVars, opened>>

\* handle_download_event, DownloadEvent::Requested
Requested ==
    /\ DownloadReady
    /\ \E dest \in Destinations, dir_ok \in BOOLEAN :
         /\ trace' = Append(trace, [kind |-> "Requested", destination |-> dest,
                                    success |-> FALSE])
         /\ IF dir_ok
            THEN /\ download_path' = Join(DownloadDir, dest)
                 /\ destination' = download_path'
                 /\ UNCHANGED download_pc
            ELSE /\ download_pc' = "no download directory"
                 /\ UNCHANGED <<download_path, destination>>
    /\ UNCHANGED <<confVars, layoutVars, opened>>

\* variant: the slot is taken, not cloned, when a download finishes
Finished_clears_slot ==
    /\ DownloadReady
    /\ \E success \in BOOLEAN, open_ok \in BOOLEAN :
         /\ trace' = Append(trace, [kind |-> "Finished", destination |-> EmptyPath,
                                    success |-> success])
         /\ download_path' = EmptyPath
         /\ IF success
            THEN /\ opened' = Append(opened, [at |-> Len(trace) + 1, path |-> download_path,
                                              ok |-> open_ok])
                 /\ download_pc' = IF open_ok THEN download_pc ELSE "open failed"
            ELSE UNCHANGED <<opened, download_pc>>
    /\ UNCHANGED <<confVars, layoutVars, destination>>

\* variant: the file is opened whether or not the download succeeded
Finished_opens_always ==
    /\ DownloadReady
    /\ \E success \in BOOLEAN, open_ok \in BOOLEAN :
         /\ trace' = Append(trace, [kind |-> "Finished", destination |-> EmptyPath,
                                    success |-> success])
         /\ opened' = Append(opened, [at |-> Len(trace) + 1, path |-> download_path,
                                      ok |-> open_ok])
         /\ download_pc' = IF open_ok THEN download_pc ELSE "open failed"
    /\ UNCHANGED <<confVars, layoutVars, download_path, destination>>

\* handle_download_event, DownloadEvent::Finished
Finished ==
    /\ DownloadReady
    /\ \E success \in BOOLEAN, open_ok \in BOOLEAN :
         /\ trace' = Append(trace, [kind |-> "Finished", destination |-> EmptyPath,
                                    success |-> success])
         /\ LET final_path == download_path
            IN  IF success
                THEN /\ opened' = Append(opened, [at |-> Len(trace) + 1, path |-> final_path,
                                                ok |-> open_ok])
                     /\ download_pc' = IF open_ok THEN download_pc ELSE "open failed"
                ELSE UNCHANGED <<opened, download_pc>>
    /\ UNCHANGED <<confVars, layoutVars, download_path, destination>>

\* handle_download_event, any other event
OtherDownloadEvent ==
    /\ DownloadReady
    /\ trace' = Append(trace, [kind |-> "Other", destination |-> EmptyPath,
                               success |-> FALSE])
    /\ UNCHANGED <<confVars, layoutVars, download_path, destination, opened, download_pc>>

\* the coordinator's state: the window is being built, the surfaces are being
\* built and attached, the task has returned (Live) or has panicked (Failed)
State ==
    CASE pc = "spawn" -> "Uninitialized"
      [] pc = "build" -> "WindowBuilding"
      [] pc \in {"inner_size", "scale_factor", "lock", "attach1", "attach2", "attach3",
                 "subscribe", "unlock"} -> "SurfacesBuilding"
      [] pc = "done" -> "Live"
      [] pc = "panicked" -> "Failed"

\* ---------------------------------------------------------- specifications
Setup ==
    \/ Spawn
    \/ BuildWindow
    \/ ReadInnerSize
    \/ ReadScaleFactor
    \/ LockWindow
    \/ AddChild
    \/ Subscribe
    \/ Unlock

Next ==
    \/ Setup
    \/ UserResize
    \/ Deliver
    \/ HandlerLock
    \/ update_view_positions
    \/ Requested
    \/ Finished
    \/ OtherDownloadEvent

Spec == Init /\ [][Next]_vars

\* the window and its three surfaces, without downloads
NextLayout ==
    \/ Spawn
    \/ BuildWindow
    \/ ReadInnerSize
    \/ ReadScaleFactor
    \/ LockWindow
    \/ AddChild
    \/ Subscribe
    \/ Unlock
    \/ UserResize
    \/ Deliver
    \/ HandlerLock
    \/ update_view_positions

SpecLayout == Init /\ [][NextLayout]_vars

\* the download hook of the main webview, in a window that is not resized
NextDownload ==
    \/ Spawn
    \/ BuildWindow
    \/ ReadInnerSize
    \/ ReadScaleFactor
    \/ LockWindow
    \/ AddChild
    \/ Subscribe
    \/ Unlock
    \/ Requested
    \/ Finished
    \/ OtherDownloadEvent

SpecDownload == Init /\ [][NextDownload]_vars

\* the setup task and the event loop are both scheduled: a step of either that
\* stays possible is eventually taken; the user owes no resize
Fairness ==
    /\ WF_vars(Setup)
    /\ WF_vars(Deliver)
    /\ WF_vars(HandlerLock)
    /\ WF_vars(update_view_positions)

SpecLayoutFair == SpecLayout /\ Fairness

TypeOK ==
    /\ pc \in {"spawn", "build", "inner_size", "scale_factor", "lock", "attach1",
               "attach2", "attach3", "subscribe", "unlock", "done", "panicked"}
    /\ event_pc \in {"idle", "lock", "update", "panicked"}
    /\ window.owner \in {"none", "setup", "event"}
    /\ resizes \in 0..MaxResizes
    /\ Len(events) <= MaxPending
    /\ Len(trace) <= MaxDownloadEvents

\* ------------------------------------------------------------- properties
\* the initial layout has attached all three surfaces
InitialLaidOut == layout.by = "initial" /\ pc \in {"subscribe", "unlock", "done"}

\* the last Resized event was handled to the end
ResizedLaidOut == layout.by = "resized"

\* ... and all its set_position and set_size calls succeeded
ResizedClean == ResizedLaidOut /\ layout.failed = {}

LaidOut == InitialLaidOut \/ ResizedLaidOut

\* wrapping sum of the three heights of a geometry map
HeightSum(g) ==
    AddU32(AddU32(g["titlebar"].size.height, g["main"].size.height), g["ask"].size.height)

\* C1: after the initial layout and after every Resized event, on both
\* platforms, when titlebar_height + ask_height <= H the heights handed to the
\* three surfaces sum to the window height H, and so do the heights the
\* surfaces hold once every call of the event has succeeded.
C1_HeightsSumToWindowHeight ==
    (LaidOut /\ titlebar_height + ask_height <= layout.size[2]) =>
        /\ HeightSum(layout.requested) = U32(layout.size[2])
        /\ (InitialLaidOut \/ ResizedClean) => HeightSum(webviews) = U32(layout.size[2])

C1_Witness ==
    /\ ResizedClean
    /\ conf_ask_mode
    /\ target_os = "other"
    /\ display_scale = <<5, 4>>
    /\ layout.size = <<1250, 875>>
    /\ HeightSum(webviews) = U32(875)
    /\ webviews["main"].size.height = U32(690)

\* physical extent of a surface, as numerators over the denominator of the
\* scale factor: from y * scale_factor to y * scale_factor + height
Top(v) == v.position.y
Bottom(v) == v.position.y + Value(v.size.height) * display_scale[2]
NonEmpty(v) == Value(v.size.height) > 0
Overlap(v, w) == Top(v) < Bottom(w) /\ Top(w) < Bottom(v)

\* the non-empty extents are pairwise disjoint and cover [0, H) exactly; an
\* extent of height 0 covers nothing and overlaps nothing
Tiles(g, H) ==
    /\ \A s \in Surfaces : IsSmall(g[s].size.height)
    /\ \A s \in Surfaces : NonEmpty(g[s]) =>
          Top(g[s]) >= 0 /\ Bottom(g[s]) <= H * display_scale[2]
    /\ \A s, t \in Surfaces : (s # t /\ NonEmpty(g[s]) /\ NonEmpty(g[t])) =>
          ~Overlap(g[s], g[t])
    /\ IsSmall(HeightSum(g)) /\ Value(HeightSum(g)) = H

\* C2: after the initial layout and after every Resized event whose calls all
\* succeeded, the vertical extents of the three surfaces do not overlap and
\* cover the window's vertical extent [0, H) exactly.
C2_SurfacesTileWindow ==
    (InitialLaidOut \/ ResizedClean) => Tiles(webviews, layout.size[2])

\* the logical y the layout is said to give: window height minus c logical units
FromBottom(c) == LogicalHeight(layout.size[2], display_scale) - Const(c, display_scale)

\* C3: on the non-macOS platform, after the initial layout and after every
\* Resized event, main is at y = 0, titlebar at window height - ask height -
\* titlebar height and ask at window height - ask height (logical units), the
\* ask height being 0 when ask-mode is disabled.
C3_NonMacosPositions ==
    (target_os = "other" /\ LaidOut) =>
        /\ layout.requested["main"].position.y = 0
        /\ layout.requested["titlebar"].position.y = FromBottom(ask_mode_height + TITLEBAR_HEIGHT)
        /\ layout.requested["ask"].position.y = FromBottom(ask_mode_height)

\* C4: on macOS, after the initial layout and after every Resized event,
\* titlebar is at y = 0, main at y = TITLEBAR_HEIGHT and ask at window height -
\* ask height (logical units), the ask height being 0 when ask-mode is disabled.
C4_MacosPositions ==
    (target_os = "macos" /\ LaidOut) =>
        /\ layout.requested["titlebar"].position.y = 0
        /\ layout.requested["main"].position.y = Const(TITLEBAR_HEIGHT, display_scale)
        /\ layout.requested["ask"].position.y = FromBottom(ask_mode_height)

\* C5: with ask-mode disabled the ask surface has physical height 0 from the
\* moment it is attached, whatever the window size, the scale factor and the
\* outcome of the set calls.
C5_AskHeightZeroWhenDisabled ==
    ~conf_ask_mode =>
        /\ webviews["ask"].attached => webviews["ask"].size.height = U32(0)
        /\ layout.requested["ask"].attached => layout.requested["ask"].size.height = U32(0)

C5_Witness ==
    /\ ~conf_ask_mode
    /\ ResizedLaidOut
    /\ display_scale = <<5, 4>>
    /\ layout.size = <<1250, 875>>
    /\ webviews["ask"].size.height = U32(0)
    /\ webviews["ask"].size.width = U32(1250)

\* C6: when the handler has returned from a Resized event whose calls all
\* succeeded, the three surfaces hold the geometry computed from that event's
\* size: every width is the event's width and nothing older remains.
C6_GeometryFromLastEvent ==
    (event_pc = "idle" /\ ResizedClean) =>
        /\ layout.size = event_size
        /\ \A s \in Surfaces :
              /\ webviews[s].size.width = U32(event_size[1])
              /\ webviews[s] = ResizedGeometry(s, event_size)

C6_Witness ==
    /\ event_pc = "idle"
    /\ ResizedClean
    /\ conf_ask_mode
    /\ resizes = 2
    /\ failed_events = 1
    /\ display_scale = <<1, 1>>
    /\ win_size = <<800, 600>>
    /\ event_size = <<1000, 700>>
    /\ \A s \in Surfaces : webviews[s].size.width = U32(1000)

\* the component of a geometry a set call writes
Component(v, call) == IF call = "position" THEN v.position ELSE v.size

\* the u32 subtraction of the handler panics in this build
OverflowPanic == Underflows(event_size) /\ overflow_checks

\* C7: a run of the handler body that does not panic on the main height issues
\* all six set calls whatever fails among them, every call that did not fail
\* takes effect (so a failure on one surface leaves the other two updated), and
\* the handler returns with the window lock released and not poisoned, so that
\* later Resized events are handled.
C7_FailureIsolated ==
    [][(event_pc = "update" /\ event_pc' # "update" /\ ~OverflowPanic) =>
          /\ event_pc' = "idle"
          /\ window' = [owner |-> "none", poisoned |-> FALSE]
          /\ subscribed'
          /\ layout'.size = event_size
          /\ layout'.called = Calls
          /\ \A c \in Calls \ layout'.failed :
                Component(webviews'[c[1]], c[2]) = Component(layout'.requested[c[1]], c[2])]_vars

\* a second event is handled after an event with a failure, and in it the
\* position of the titlebar fails while main and ask are updated
C7_Witness ==
    /\ event_pc = "idle"
    /\ ResizedLaidOut
    /\ failed_events = 2
    /\ layout.failed = {<<"titlebar", "position">>}
    /\ webviews["titlebar"].position # layout.requested["titlebar"].position
    /\ webviews["main"] = layout.requested["main"]
    /\ webviews["ask"] = layout.requested["ask"]

\* the last download event handled
LastEvent == trace[Len(trace)]

\* C8: a Requested event with a resolvable download directory stores the
\* download directory joined with the file name of the proposed destination,
\* and hands the same path back to the toolkit.
C8_RedirectedIntoDownloadDir ==
    (trace # <<>> /\ LastEvent.kind = "Requested" /\ download_pc = "ready") =>
        /\ download_path = Join(DownloadDir, FileName(LastEvent.destination))
        /\ destination = Join(DownloadDir, FileName(LastEvent.destination))

\* the shell.open calls made while handling the i-th download event
OpensAt(i) == {k \in 1..Len(opened) : opened[k].at = i}

\* C9: a Finished event that directly follows a Requested event opens exactly
\* one file, the path stored by that request, when success is true, and opens
\* nothing when success is false.
C9_OpenOnceOnSuccess ==
    \A i \in 2..Len(trace) :
        (trace[i].kind = "Finished" /\ trace[i - 1].kind = "Requested") =>
            IF trace[i].success
            THEN /\ Cardinality(OpensAt(i)) = 1
                 /\ \A k \in OpensAt(i) :
                       opened[k].path = Join(DownloadDir, trace[i - 1].destination)
            ELSE OpensAt(i) = {}

C9_Witness ==
    /\ Len(trace) = 3
    /\ trace[1].kind = "Requested"
    /\ trace[1].destination = [abs |-> FALSE, comps |-> <<"report.pdf">>]
    /\ trace[2].kind = "Finished" /\ trace[2].success
    /\ trace[3].kind = "Other"
    /\ Len(opened) = 1
    /\ opened[1].path = [abs |-> TRUE, comps |-> <<"home", "Downloads", "report.pdf">>]

\* C10: when shell.open fails after a successful download, the download
\* handler still completes normally and can handle later download events.
C10_OpenFailureOnlyReported ==
    (\E k \in 1..Len(opened) : ~opened[k].ok) => download_pc = "ready"

\* the surfaces attached so far
Attached == {s \in Surfaces : webviews[s].attached}

\* the first k surfaces in the order of attachment
Prefix(k) == {AttachOrder[i] : i \in 1..k}

\* C11: when the window build, the size or scale-factor query or an add_child
\* fails, the setup task ends there: it is never Live, the surfaces attached
\* are those before the failure and never all three, and the closure is not
\* registered; conversely the closure is registered and Live reached only
\* after every one of these steps has succeeded.
C11_ConstructionFailureIsFatal ==
    /\ pc = "panicked" =>
          /\ State # "Live"
          /\ ~subscribed
          /\ Attached # Surfaces
          /\ \E k \in 0..2 : Attached = Prefix(k)
          /\ events = <<>> /\ event_pc = "idle"
    /\ (subscribed \/ State = "Live") =>
          /\ Attached = Surfaces
          /\ pc \in {"unlock", "done"}
          /\ scale_factor = display_scale

\* the second add_child has failed
C11_Witness ==
    /\ pc = "panicked"
    /\ window.poisoned
    /\ Attached = Prefix(1)
    /\ ~subscribed

\* C12: the geometry the Resized handler asks for at size S is the geometry
\* the initial layout gives a window of size S.
C12_ResizeMatchesInitialLayout ==
    ResizedLaidOut =>
        \A s \in Surfaces : layout.requested[s] = InitialGeometry(s, layout.size)

Rank(st) ==
    CASE st = "Uninitialized" -> 0
      [] st = "WindowBuilding" -> 1
      [] st = "SurfacesBuilding" -> 2
      [] st = "Live" -> 3
      [] st = "Failed" -> 4

\* C13: the coordinator moves from a state only to the next one of
\* Uninitialized, WindowBuilding, SurfacesBuilding, Live (or to the failure of
\* the task) and never back; the closure is registered only when the three
\* surfaces are attached, so a handler run finds all three.
C13_OneDirectionalSetup ==
    /\ [](subscribed => Attached = Surfaces)
    /\ [](event_pc \in {"lock", "update"} => Attached = Surfaces)
    /\ [](events # <<>> => subscribed)
    /\ [][\/ State' = State
          \/ State # "Failed" /\ State' = "Failed" /\ State # "Live"
          \/ State \notin {"Live", "Failed"} /\ Rank(State') = Rank(State) + 1]_vars

C13_Witness ==
    /\ State = "Live"
    /\ event_pc = "update"
    /\ Attached = Surfaces
    /\ layout.by = "initial"

\* the setup task is between taking the window guard and dropping it
SetupHoldsWindow == pc \in {"attach1", "attach2", "attach3", "subscribe", "unlock"}

\* C14: the handler body runs only with the window guard, which the setup
\* task holds from before the first add_child until it returns; a Resized
\* event delivered before that has changed no surface.
C14_HandlerExcludedDuringSetup ==
    /\ SetupHoldsWindow => (window.owner = "setup" /\ event_pc # "update")
    /\ event_pc = "update" => (window.owner = "event" /\ pc = "done")
    /\ (event_pc = "lock" /\ pc # "done") =>
          (layout.by = "initial" /\ \A s \in Surfaces : webviews[s] = layout.requested[s])

\* a Resized event is delivered while the setup task still holds the guard
C14_Witness ==
    /\ pc = "unlock"
    /\ window.owner = "setup"
    /\ event_pc = "lock"
    /\ event_size = inner_size
    /\ event_size # win_size
    /\ \A s \in Surfaces : webviews[s] = InitialGeometry(s, win_size)

\* the handler body returns from a Resized event
HandlerReturns == event_pc = "update" /\ event_pc' = "idle"

\* the surfaces with a failed call in the event just handled
FailedSurfaces == {c[1] : c \in layout'.failed}

\* C15 as stated: a surface with a failed set_position or set_size keeps its
\* whole geometry, position and size, in that event.
C15_WholeGeometryKept ==
    [][HandlerReturns => \A s \in FailedSurfaces : webviews'[s] = webviews[s]]_vars

\* C15 amended: of a surface with a failed call, the component whose call
\* failed keeps its previous value, and the component whose call succeeded
\* takes the value computed from the event.
C15_FailedComponentKept ==
    [][HandlerReturns =>
          \A c \in Calls :
              Component(webviews'[c[1]], c[2]) =
                  IF c \in layout'.failed
                  THEN Component(webviews[c[1]], c[2])
                  ELSE Component(ResizedGeometry(c[1], event_size), c[2])]_vars

\* set_size of ask has failed in the first event: ask has the new position
\* and the size of the initial layout
C15_Witness ==
    /\ event_pc = "idle"
    /\ resizes = 1
    /\ layout.by = "resized"
    /\ layout.failed = {<<"ask", "size">>}
    /\ layout.size # win_size
    /\ webviews["ask"].size = InitialGeometry("ask", win_size).size
    /\ webviews["ask"].size # layout.requested["ask"].size
    /\ webviews["ask"].position = layout.requested["ask"].position
    /\ webviews["ask"].position # InitialGeometry("ask", win_size).position

\* a download event has just been handled
Handled == Len(trace') = Len(trace) + 1
Latest == trace'[Len(trace')]

\* C16: the slot changes only while a Requested event is handled; a Finished
\* event and any other event leave it, and an event other than Requested and
\* Finished opens nothing and raises no error.
C16_SlotChangesOnlyOnRequested ==
    [][/\ download_path' # download_path => (Handled /\ Latest.kind = "Requested")
       /\ (Handled /\ Latest.kind = "Finished") => download_path' = download_path
       /\ (Handled /\ Latest.kind = "Other") =>
             /\ download_path' = download_path
             /\ opened' = opened
             /\ download_pc' = download_pc
             /\ destination' = destination]_vars

C16_Witness ==
    /\ Len(trace) = 3
    /\ trace[1].kind = "Requested"
    /\ trace[1].destination = [abs |-> FALSE, comps |-> <<"sub", "notes.txt">>]
    /\ trace[2].kind = "Finished" /\ ~trace[2].success
    /\ trace[3].kind = "Other"
    /\ opened = <<>>
    /\ download_pc = "ready"
    /\ download_path = [abs |-> TRUE, comps |-> <<"home", "Downloads", "sub", "notes.txt">>]

\* the Requested events before the i-th event that stored a path
StoredBefore(i) ==
    {j \in 1..(i - 1) : trace[j].kind = "Requested"
                          /\ ~(j = Len(trace) /\ download_pc = "no download directory")}

Max(S) == CHOOSE m \in S : \A n \in S : n <= m

\* the path stored by the most recent Requested event before the i-th event
SlotBefore(i) ==
    IF StoredBefore(i) = {} THEN EmptyPath
    ELSE Join(DownloadDir, trace[Max(StoredBefore(i))].destination)

\* C17: the slot holds the path stored by the most recent Requested event, and
\* every successful Finished event opens the path of the most recent Requested
\* event before it, whichever download has finished.
C17_LatestRequestWins ==
    /\ download_path = SlotBefore(Len(trace) + 1)
    /\ \A k \in 1..Len(opened) :
          /\ trace[opened[k].at].kind = "Finished"
          /\ opened[k].path = SlotBefore(opened[k].at)

\* Requested(report.pdf), Requested(sub/notes.txt), Finished(success)
C17_Witness ==
    /\ Len(trace) = 3
    /\ trace[1].kind = "Requested"
    /\ trace[1].destination = [abs |-> FALSE, comps |-> <<"report.pdf">>]
    /\ trace[2].kind = "Requested"
    /\ trace[2].destination = [abs |-> FALSE, comps |-> <<"sub", "notes.txt">>]
    /\ trace[3].kind = "Finished" /\ trace[3].success
    /\ Len(opened) = 1
    /\ opened[1].path = [abs |-> TRUE, comps |-> <<"home", "Downloads", "sub", "notes.txt">>]

\* the height asked for the main surface by the last layout
RequestedMainHeight == layout.requested["main"].size.height

\* C18: when titlebar_height + ask_height exceeds the window height H, the
\* main height computed by the initial layout and by the handler is the
\* negative H - titlebar_height - ask_height: the computation does not abort,
\* and the result is neither 0 nor a wrapped large positive value.
C18_NegativeMainHeight ==
    /\ (event_pc = "panicked") => ~Underflows(event_size)
    /\ (overflow_checks /\ Attached = Prefix(2) /\ Underflows(win_size)) => pc # "panicked"
    /\ (LaidOut /\ Underflows(layout.size)) =>
          /\ RequestedMainHeight # U32(0)
          /\ IsSmall(RequestedMainHeight)

\* C19: when the coordinator is Live, no Resized event is pending or being
\* handled and no call of the last layout has failed, the surfaces hold the
\* geometry computed for the window's current inner size.
C19_NoResizeLost ==
    (State = "Live" /\ events = <<>> /\ event_pc = "idle" /\ layout.failed = {}) =>
        /\ layout.size = inner_size
        /\ \A s \in Surfaces : webviews[s] = layout.requested[s]

\* C20: once the setup task asks for the window guard it reaches Live (or
\* fails in add_child) and has then released the guard; a handler waiting for
\* the guard eventually gets it, applies its updates and returns; and no
\* event is delivered before the handler has returned from the previous one.
C20_NoDeadlockOnWindow ==
    /\ (pc = "lock") ~> (State \in {"Live", "Failed"})
    /\ [](State = "Live" => window.owner # "setup")
    /\ (event_pc = "lock") ~> (event_pc = "idle")
    /\ [][event_size' # event_size => event_pc = "idle"]_vars

====
